---- MODULE Spec2Model ----
(***************************************************************************)
(* Model of the initial-condition generators of miluphcuda's examples      *)
(* (balls_impact/make_balls.py): the sphere-surface sampler, the three     *)
(* ball fillers and the inverse-CDF sampler.                               *)
(*                                                                         *)
(* Lengths (radius, delta_r) are integer multiples of one length unit, so  *)
(* every ratio radius/delta_r with small numerator and denominator is      *)
(* covered.  Floating-point arithmetic is modelled by exact rational       *)
(* arithmetic on integer numerators and denominators; NaN (0/0, sqrt of a  *)
(* negative number) is an explicit flag.  Irrational coordinates are kept  *)
(* exact by storing integer coefficients of a fixed basis:                 *)
(*   - an HCP point is (cx, cy, cz)/den in the basis                       *)
(*     (r, r/sqrt 3, r*sqrt(8/3)), r = delta_r/2, so that                  *)
(*     3*|p|^2/r^2 = (3cx^2 + cy^2 + 8cz^2)/den^2;                         *)
(*   - a sphere-surface point is its height y and the squared radius       *)
(*     rxz2 = x^2 + z^2 of its circle of latitude (the angle theta = phi*i *)
(*     only rotates (x, z) and is represented by the index i).             *)
(***************************************************************************)
EXTENDS Integers, Sequences, FiniteSets, TLC

VARIABLES entry, radius, delta_r, fib, cubic, hcp, N, sphere, cdf, u, sample,
          pin, particles, cin, data, script, file

\* the geometry functions' inputs and results
geometry_vars == <<radius, delta_r, fib, cubic, hcp, N, sphere, cdf, u, sample>>
\* the inputs and results of the field assignment, the cube generator and the
\* file writers
particle_vars == <<pin, particles, cin, data, script, file>>

vars == <<entry, radius, delta_r, fib, cubic, hcp, N, sphere, cdf, u, sample,
          pin, particles, cin, data, script, file>>

(***************************************************************************)
(* Bounds of the model.                                                    *)
(***************************************************************************)
\* radius and delta_r range over -MaxLen..MaxLen length units
MaxLen == 4
\* direct calls of the sphere sampler use counts 0..MaxCount
MaxCount == 6
\* a CDF has 2..MaxCdfLen samples
MaxCdfLen == 3
\* CDF values and u are multiples of 1/CdfScale in [0,1]
CdfScale == 4
\* domain values of a CDF are integers in 0..MaxDomain
MaxDomain == 3
\* points_to_particles is given 0..MaxPoints points
MaxPoints == 2
\* a generating script writes 1..MaxRows particles
MaxRows == 3
\* the cube has 1..MaxSide particles per side and a side of 1..MaxSize length units
MaxSide == 3
MaxSize == 2

Lens == (-MaxLen)..MaxLen
Counts == 0..MaxCount

(***************************************************************************)
(* Exact arithmetic helpers.                                               *)
(***************************************************************************)
Abs(v) == IF v < 0 THEN -v ELSE v

RECURSIVE GCD(_, _)
GCD(a, b) == IF b = 0 THEN Abs(a) ELSE GCD(b, a % Abs(b))

\* floor and ceiling of n/d, d # 0
FloorDiv(n, d) == IF d > 0 THEN n \div d ELSE (-n) \div (-d)
CeilDiv(n, d) == -FloorDiv(-n, d)

\* np.round(n/d, 0): round half to even
RoundHalfEven(n, d) ==
    LET f == FloorDiv(n, d)
        nn == IF d > 0 THEN n ELSE -n
        dd == Abs(d)
        twice == 2 * (nn - f * dd)
    IN  IF twice < dd THEN f
        ELSE IF twice > dd THEN f + 1
        ELSE IF f % 2 = 0 THEN f ELSE f + 1

\* sum of f[0] + ... + f[n-1]
RECURSIVE SumFn(_, _)
SumFn(f, n) == IF n <= 0 THEN 0 ELSE f[n - 1] + SumFn(f, n - 1)

\* the value a call has not produced yet
NoResult == [outcome |-> "none", points |-> {}]
\* a call ended by an exception (ZeroDivisionError, ValueError)
Raised == [outcome |-> "error", points |-> {}]
Returned(pts) == [outcome |-> "ok", points |-> pts]

(***************************************************************************)
(* points_on_sphere_surface                                                *)
(***************************************************************************)
\* The count is the rational cn/cd, cd > 0: make_ball passes its float shell
\* allocation, a direct caller an integer (cd = 1).

\* a sampler that truncates the count, int(N), instead of rounding it up
SphereCountTruncated(cn, cd) == IF cn <= 0 THEN 0 ELSE FloorDiv(cn, cd)

\* len(np.arange(N)) = ceil(N), nothing for N <= 0
SphereCount(cn, cd) == IF cn <= 0 THEN 0 ELSE CeilDiv(cn, cd)

\* a sampler that spaces the heights by 2/N instead of 2/(N-1)
RawHeightOverN(i, cn, cd) ==
    IF cn = 0 THEN [nan |-> TRUE, n |-> 0, d |-> 1]
    ELSE IF cn > 0 THEN [nan |-> FALSE, n |-> cn - 2 * i * cd, d |-> cn]
    ELSE [nan |-> FALSE, n |-> 2 * i * cd - cn, d |-> -cn]

\* y = 1 - (i / float(N-1)) * 2 as the fraction n/d, d > 0; with N = 1 the
\* division is 0/0 = NaN for i = 0 (and i/0 = inf, y = -inf, for i > 0)
RawHeight(i, cn, cd) ==
    LET d == cn - cd
    IN  IF d = 0
        THEN IF i = 0 THEN [nan |-> TRUE, n |-> 0, d |-> 1]
             ELSE [nan |-> FALSE, n |-> -2 * i * cd, d |-> 0]
        ELSE IF d > 0 THEN [nan |-> FALSE, n |-> d - 2 * i * cd, d |-> d]
        ELSE [nan |-> FALSE, n |-> 2 * i * cd - d, d |-> -d]

\* np.clip(y, -1, 1); NaN stays NaN
Clip(h) ==
    IF h.nan THEN h
    ELSE IF h.n > h.d THEN [nan |-> FALSE, n |-> 1, d |-> 1]
    ELSE IF h.n < -h.d THEN [nan |-> FALSE, n |-> -1, d |-> 1]
    ELSE h

\* point i: height y = yn/yd and r*r = 1 - y*y = rn/yd^2, where r = sqrt(1 - y*y)
\* is NaN for a negative argument; x = cos(theta)*r, z = sin(theta)*r
SpherePoint(i, cn, cd) ==
    LET h == Clip(RawHeight(i, cn, cd))
    IN  IF h.nan \/ h.d = 0 \/ h.d * h.d - h.n * h.n < 0
        THEN [i |-> i, nan |-> TRUE, yn |-> 0, yd |-> 1, rn |-> 0]
        ELSE [i |-> i, nan |-> FALSE, yn |-> h.n, yd |-> h.d,
              rn |-> h.d * h.d - h.n * h.n]

points_on_sphere_surface(cn, cd) ==
    [m \in 1..SphereCount(cn, cd) |-> SpherePoint(m - 1, cn, cd)]

CallSphere ==
    /\ entry = "sphere"
    /\ sphere.outcome = "none"
    /\ sphere' = Returned(points_on_sphere_surface(N, 1))
    /\ UNCHANGED <<entry, radius, delta_r, fib, cubic, hcp, N, cdf, u, sample>>
    /\ UNCHANGED particle_vars

(***************************************************************************)
(* make_ball                                                               *)
(***************************************************************************)
\* np.pi as the fraction PiNum/PiDen: it rounds every volume of the model's
\* range as the float does
PiNum == 355
PiDen == 113

\* round(4*pi/3 * radius^3 * target_density), target_density = delta_r^-3
total_points_in_ball(rad, dr) ==
    RoundHalfEven(4 * PiNum * rad * rad * rad, 3 * PiDen * dr * dr * dr)

\* len(np.arange(delta_r, radius+delta_r, delta_r)) = ceil(radius/delta_r), or 0
NumShells(rad, dr) == IF CeilDiv(rad, dr) < 0 THEN 0 ELSE CeilDiv(rad, dr)

\* shells[k-1] = delta_r + (k-1)*delta_r
Shell(k, dr) == k * dr

\* np.sum(shells**2)
SumShells2(rad, dr) ==
    SumFn([m \in 0..(NumShells(rad, dr) - 1) |-> Shell(m + 1, dr) * Shell(m + 1, dr)],
          NumShells(rad, dr))

\* shell_distribution[k-1] = shells[k-1]^2 * N_total / sum, in lowest terms
ShellAllocation(k, rad, dr) ==
    LET n == Shell(k, dr) * Shell(k, dr) * total_points_in_ball(rad, dr)
        d == SumShells2(rad, dr)
        g == GCD(n, d)
    IN  [n |-> n \div g, d |-> d \div g]

\* points_on_sphere_surface(N) * shell
ShellPoints(k, rad, dr) ==
    LET a == ShellAllocation(k, rad, dr)
        pts == points_on_sphere_surface(a.n, a.d)
    IN  { [shell |-> Shell(k, dr), pt |-> pts[m]] : m \in DOMAIN pts }

\* delta_r**-3 raises for delta_r = 0; np.concatenate raises for no shell
make_ball(rad, dr) ==
    IF dr = 0 THEN Raised
    ELSE IF NumShells(rad, dr) = 0 THEN Raised
    ELSE Returned(UNION { ShellPoints(k, rad, dr) : k \in 1..NumShells(rad, dr) })

CallFib ==
    /\ entry = "ball"
    /\ fib.outcome = "none"
    /\ fib' = make_ball(radius, delta_r)
    /\ UNCHANGED <<entry, radius, delta_r, cubic, hcp, N, sphere, cdf, u, sample>>
    /\ UNCHANGED particle_vars

(***************************************************************************)
(* make_ball_cubic                                                         *)
(***************************************************************************)
\* np.mgrid[-radius:radius:spacing] along one axis: size = ceil((stop-start)/step)
\* values start + m*step; step 0 divides by zero, a negative size is refused
MGridSize(rad, spacing) == CeilDiv(2 * rad, spacing)

MGrid(rad, spacing) ==
    LET axis == { -rad + m * spacing : m \in 0..(MGridSize(rad, spacing) - 1) }
    IN  { <<x, y, z>> : x \in axis, y \in axis, z \in axis }

Norm2(p) == p[1] * p[1] + p[2] * p[2] + p[3] * p[3]

\* np.linalg.norm(p) < rad, on squares (the norm is never negative)
InsideCubic(p, rad) == rad > 0 /\ Norm2(p) < rad * rad

make_ball_cubic(rad, dr) ==
    IF dr = 0 THEN Raised
    ELSE IF MGridSize(rad, dr) < 0 THEN Raised
    ELSE Returned({ p \in MGrid(rad, dr) : InsideCubic(p, rad) })

CallCubic ==
    /\ entry = "ball"
    /\ cubic.outcome = "none"
    /\ cubic' = make_ball_cubic(radius, delta_r)
    /\ UNCHANGED <<entry, radius, delta_r, fib, hcp, N, sphere, cdf, u, sample>>
    /\ UNCHANGED particle_vars

(***************************************************************************)
(* make_ball_hcp                                                           *)
(***************************************************************************)
\* N_1d = ceil(radius*2/delta_r)
N_1d(rad, dr) == CeilDiv(2 * rad, dr)

\* lattice coordinates of index (i, j, k), before the scaling by r:
\* x = 2i + (j+k) mod 2; y = sqrt3*(j + (k mod 2)/3) = HcpY/sqrt3;
\* z = (2*sqrt6/3)*k = sqrt(8/3)*HcpZ
\* a lattice whose rows are not shifted from one plane to the next
HcpXNoPlaneShift(i, j, k) == 2 * i + (j % 2)

HcpX(i, j, k) == 2 * i + ((j + k) % 2)
HcpY(i, j, k) == 3 * j + (k % 2)
HcpZ(i, j, k) == k

\* np.mean(points, axis=1) of the n^3 grid points: sum / count per axis, the
\* three means brought to the common denominator den (mean = m/den)
Centroid(n) ==
    LET I == 0..(n - 1)
        count == n * n * n
        sx == SumFn([i \in I |-> SumFn([j \in I |-> SumFn([k \in I |-> HcpX(i, j, k)], n)], n)], n)
        sy == SumFn([i \in I |-> SumFn([j \in I |-> SumFn([k \in I |-> HcpY(i, j, k)], n)], n)], n)
        sz == SumFn([i \in I |-> SumFn([j \in I |-> SumFn([k \in I |-> HcpZ(i, j, k)], n)], n)], n)
        g == GCD(GCD(count, sx), GCD(sy, sz))
    IN  [mx |-> sx \div g, my |-> sy \div g, mz |-> sz \div g, den |-> count \div g]

\* the lattice site of index (i, j, k), shifted by the centroid c
HcpSite(i, j, k, c) ==
    [i |-> i, j |-> j, k |-> k,
     cx |-> HcpX(i, j, k) * c.den - c.mx,
     cy |-> HcpY(i, j, k) * c.den - c.my,
     cz |-> HcpZ(i, j, k) * c.den - c.mz,
     den |-> c.den]

\* 3*|p|^2/r^2 * den^2
HcpNorm2(p) == 3 * p.cx * p.cx + p.cy * p.cy + 8 * p.cz * p.cz

\* np.linalg.norm(p) < rad with r = dr/2: |p|^2 = dr^2 * HcpNorm2 / (12 den^2)
InsideHcp(p, rad, dr) ==
    rad > 0 /\ dr * dr * HcpNorm2(p) < 12 * p.den * p.den * rad * rad

HcpGrid(n, c) ==
    { HcpSite(i, j, k, c) : i \in 0..(n - 1), j \in 0..(n - 1), k \in 0..(n - 1) }

make_ball_hcp(rad, dr) ==
    IF dr = 0 THEN Raised
    ELSE IF N_1d(rad, dr) < 0 THEN Raised
    ELSE IF N_1d(rad, dr) = 0 THEN Returned({})
    ELSE LET c == Centroid(N_1d(rad, dr))
         IN  Returned({ p \in HcpGrid(N_1d(rad, dr), c) : InsideHcp(p, rad, dr) })

CallHcp ==
    /\ entry = "ball"
    /\ hcp.outcome = "none"
    /\ hcp' = make_ball_hcp(radius, delta_r)
    /\ UNCHANGED <<entry, radius, delta_r, fib, cubic, N, sphere, cdf, u, sample>>
    /\ UNCHANGED particle_vars

(***************************************************************************)
(* random_from_cdf                                                         *)
(***************************************************************************)
\* A CDF is (x, y): x the strictly increasing domain samples, y the
\* non-decreasing cumulative values as multiples of 1/CdfScale, normalised so
\* that the last one is 1 (make_impact_flaw_cdf: cdf /= cdf[-1]).
Increasing(s) == \A a, b \in DOMAIN s : a < b => s[a] < s[b]
NonDecreasing(s) == \A a, b \in DOMAIN s : a < b => s[a] <= s[b]

Cdfs ==
    UNION { { [x |-> xs, y |-> ys] :
                xs \in { s \in [1..n -> 0..MaxDomain] : Increasing(s) },
                ys \in { s \in [1..n -> 0..CdfScale] :
                            NonDecreasing(s) /\ s[n] = CdfScale } } :
            n \in 2..MaxCdfLen }

\* u in [0,1] as a multiple of 1/CdfScale (np.random.random draws from [0,1);
\* u = 1 is the closed end the sampler is asked about)
Us == 0..CdfScale

\* np.searchsorted(y, v, side='left'): the number of samples < v
SearchSortedLeft(y, v) == Cardinality({ k \in DOMAIN y : y[k] < v })
\* np.searchsorted(y, v, side='right'): the number of samples <= v
SearchSortedRight(y, v) == Cardinality({ k \in DOMAIN y : y[k] <= v })

\* np.clip(v, lo, hi)
ClipIndex(v, lo, hi) == IF v < lo THEN lo ELSE IF v > hi THEN hi ELSE v

\* the 0-based bracketing indices
BracketLow(y, v) == ClipIndex(SearchSortedLeft(y, v) - 1, 0, Len(y) - 1)
BracketHigh(y, v) == ClipIndex(SearchSortedRight(y, v), 0, Len(y) - 1)

\* x0 + (u-y0) * (x1-x0)/(y1-y0) as the fraction n/d, d > 0; a division by
\* zero gives NaN (0/0) or an infinity, silently
Lerp(x0, x1, y0, y1, v) ==
    IF y1 - y0 = 0
    THEN [divzero |-> TRUE, nan |-> (v - y0) * (x1 - x0) = 0, n |-> 0, d |-> 1]
    ELSE IF y1 - y0 > 0
    THEN [divzero |-> FALSE, nan |-> FALSE,
          n |-> x0 * (y1 - y0) + (v - y0) * (x1 - x0), d |-> y1 - y0]
    ELSE [divzero |-> FALSE, nan |-> FALSE,
          n |-> -(x0 * (y1 - y0) + (v - y0) * (x1 - x0)), d |-> y0 - y1]

random_from_cdf(c, v) ==
    LET i0 == BracketLow(c.y, v)
        i1 == BracketHigh(c.y, v)
    IN  [outcome |-> "ok", i0 |-> i0, i1 |-> i1,
         value |-> Lerp(c.x[i0 + 1], c.x[i1 + 1], c.y[i0 + 1], c.y[i1 + 1], v)]

CallRandomFromCdf ==
    /\ entry = "cdf"
    /\ sample.outcome = "none"
    /\ sample' = random_from_cdf(cdf, u)
    /\ UNCHANGED <<entry, radius, delta_r, fib, cubic, hcp, N, sphere, cdf, u>>
    /\ UNCHANGED particle_vars

(***************************************************************************)
(* points_to_particles                                                     *)
(***************************************************************************)
\* the number of fields of a particle record: np.zeros((24, N))
NumFields == 24

\* The 3 x N array `points` is the sequence of its N columns <<x, y, z>>;
\* velocity is a triple; mass, density, h and distention are scalars.
PCoords == {-1, 1}
PointSets ==
    UNION { [1..n -> PCoords \X PCoords \X PCoords] : n \in 0..MaxPoints }
Velocities == { <<1, 0, 0>>, <<-1, 0, 0>>, <<1, 2, 3>> }
Scalars ==
    { [mass |-> 4, density |-> 5, h |-> 6, distention |-> 7],
      [mass |-> 1, density |-> 1, h |-> 1, distention |-> 1] }

\* np.tile in place of np.repeat: vx, vy, vz, vx, vy, vz, ...
TiledVelocity(velocity, n, q) == velocity[(q % 3) + 1]

\* np.repeat(velocity, N)[q], q = 0..3N-1: vx N times, then vy, then vz
RepeatedVelocity(velocity, n, q) == velocity[(q \div n) + 1]

\* np.repeat(velocity, N).reshape(3, N)[r][c], r = 0..2, c = 0..N-1
VelocityRows(velocity, n, r, c) == RepeatedVelocity(velocity, n, r * n + c)

\* p[f][c] after the assignments of lines 151-157, f = 0..23, c = 1..N
points_to_particles(a) ==
    LET n == Len(a.points)
    IN  [f \in 0..(NumFields - 1) |->
           [c \in 1..n |->
              IF f < 3 THEN a.points[c][f + 1]
              ELSE IF f < 6 THEN VelocityRows(a.velocity, n, f - 3, c - 1)
              ELSE IF f = 6 THEN a.mass
              ELSE IF f = 7 THEN a.density
              ELSE IF f = 9 THEN a.h
              ELSE IF f = 22 THEN a.distention
              ELSE 0]]

CallPointsToParticles ==
    /\ entry = "particles"
    /\ particles.outcome = "none"
    /\ particles' = [outcome |-> "ok", fields |-> points_to_particles(pin)]
    /\ UNCHANGED <<entry, pin, cin, data, script, file>>
    /\ UNCHANGED geometry_vars

(***************************************************************************)
(* The particle files the generating scripts write                         *)
(***************************************************************************)
\* A file is the sequence of its rows, a row the sequence of the quantities
\* written to its columns, named as the writing code names them.
StressColumns == <<"S00", "S01", "S02", "S10", "S11", "S12", "S20", "S21", "S22">>

ScriptNames == {"generate_particles", "schaefer_make_balls", "make_cube", "make_balls"}

\* cube_impact/generate_particles.py: parts
GenerateParticlesRow ==
    <<"x", "y", "z", "vx", "vy", "vz", "mass", "material_type">> \o StressColumns

\* balls_impact/schaefer_make_balls.py: np.c_[...]
SchaeferRow ==
    <<"x", "y", "z", "vx", "vy", "vz", "mass", "density", "energy", "material_type">>
        \o StressColumns

\* spinning_cube/make_cube.py: np.column_stack([...])
MakeCubeRow ==
    <<"x", "y", "z", "vx", "vy", "vz", "mass", "density", "energy",
      "smoothing_length", "material_type">> \o StressColumns
        \o <<"alpha_jutzi", "pressure">>

\* balls_impact/make_balls.py: what points_to_particles puts into field f;
\* "zero" is a field it leaves at np.zeros
FieldLabel(f) ==
    IF f = 0 THEN "x" ELSE IF f = 1 THEN "y" ELSE IF f = 2 THEN "z"
    ELSE IF f = 3 THEN "vx" ELSE IF f = 4 THEN "vy" ELSE IF f = 5 THEN "vz"
    ELSE IF f = 6 THEN "mass"
    ELSE IF f = 7 THEN "density"
    ELSE IF f = 9 THEN "smoothing_length"
    ELSE IF f = 22 THEN "distention"
    ELSE "zero"

\* np.savetxt('stable_ball.data', p.T): a row is the 24 fields of one particle
MakeBallsRow == [c \in 1..NumFields |-> FieldLabel(c - 1)]

\* one row per particle
Rows(row, count) == [r \in 1..count |-> row]

WriteGenerateParticles ==
    /\ entry = "write"
    /\ script.name = "generate_particles"
    /\ file = <<>>
    /\ file' = Rows(GenerateParticlesRow, script.count)
    /\ UNCHANGED <<entry, pin, particles, cin, data, script>>
    /\ UNCHANGED geometry_vars

WriteSchaefer ==
    /\ entry = "write"
    /\ script.name = "schaefer_make_balls"
    /\ file = <<>>
    /\ file' = Rows(SchaeferRow, script.count)
    /\ UNCHANGED <<entry, pin, particles, cin, data, script>>
    /\ UNCHANGED geometry_vars

WriteMakeCube ==
    /\ entry = "write"
    /\ script.name = "make_cube"
    /\ file = <<>>
    /\ file' = Rows(MakeCubeRow, script.count)
    /\ UNCHANGED <<entry, pin, particles, cin, data, script>>
    /\ UNCHANGED geometry_vars

WriteMakeBalls ==
    /\ entry = "write"
    /\ script.name = "make_balls"
    /\ file = <<>>
    /\ file' = Rows(MakeBallsRow, script.count)
    /\ UNCHANGED <<entry, pin, particles, cin, data, script>>
    /\ UNCHANGED geometry_vars

(***************************************************************************)
(* create_cube_distribution                                                *)
(***************************************************************************)
\* rho_solid and alpha_jutzi = AlphaNum/AlphaDen of the script's own call
RhoSolid == 2700
AlphaNum == 5
AlphaDen == 4

\* the angular velocities tried
Omegas == {-1, 0, 1, 2}

CubeInputs == [n : 1..MaxSide, size : 1..MaxSize, omega : Omegas]

\* Lengths are fractions over CubeDen = 2n^2: spacing = size/n,
\* coords[k] = (k + 0.5) * spacing
CubeDen(a) == 2 * a.n * a.n
Coord(k, a) == (2 * k + 1) * a.size * a.n

\* a rotation about the origin of the coordinates
CenterAtOrigin(a) == 0

\* coords.mean() = sum(coords) / n
CubeCenter(a) == SumFn([k \in 0..(a.n - 1) |-> Coord(k, a)], a.n) \div a.n

\* mass = rho_bulk * spacing^3, rho_bulk = rho_solid / alpha_jutzi, in lowest terms
CubeMass(a) ==
    LET n == RhoSolid * AlphaDen * a.size * a.size * a.size
        d == AlphaNum * a.n * a.n * a.n
        g == GCD(n, d)
    IN  [n |-> n \div g, d |-> d \div g]

\* the particle of grid index (i, j, k): position, velocity = (-omega*dy,
\* omega*dx, 0) about (center_x, center_y), and the mass column
CubeParticle(i, j, k, a) ==
    LET dx == Coord(i, a) - CubeCenter(a)
        dy == Coord(j, a) - CubeCenter(a)
    IN  [pos |-> <<Coord(i, a), Coord(j, a), Coord(k, a)>>,
         vel |-> <<-a.omega * dy, a.omega * dx, 0>>,
         den |-> CubeDen(a),
         mass |-> CubeMass(a)]

\* the n^3 particles, by grid index (meshgrid with indexing='ij')
create_cube_distribution(a) ==
    LET I == 0..(a.n - 1)
    IN  [t \in I \X I \X I |-> CubeParticle(t[1], t[2], t[3], a)]

CallCreateCube ==
    /\ entry = "cube"
    /\ data.outcome = "none"
    /\ data' = [outcome |-> "ok", particles |-> create_cube_distribution(cin)]
    /\ UNCHANGED <<entry, pin, particles, cin, script, file>>
    /\ UNCHANGED geometry_vars

(***************************************************************************)
(* Specification                                                           *)
(***************************************************************************)
InitBall ==
    /\ entry = "ball"
    /\ radius \in Lens
    /\ delta_r \in Lens
    /\ N = 0
    /\ cdf = [x |-> <<>>, y |-> <<>>]
    /\ u = 0

InitSphere ==
    /\ entry = "sphere"
    /\ radius = 0
    /\ delta_r = 0
    /\ N \in Counts
    /\ cdf = [x |-> <<>>, y |-> <<>>]
    /\ u = 0

InitCdf ==
    /\ entry = "cdf"
    /\ radius = 0
    /\ delta_r = 0
    /\ N = 0
    /\ cdf \in Cdfs
    /\ u \in Us

\* the inputs of the calls the run does not make
NoGeometry ==
    /\ radius = 0
    /\ delta_r = 0
    /\ N = 0
    /\ cdf = [x |-> <<>>, y |-> <<>>]
    /\ u = 0

NoParticleInput ==
    pin = [points |-> <<>>, velocity |-> <<0, 0, 0>>,
           mass |-> 0, density |-> 0, h |-> 0, distention |-> 0]

InitParticles ==
    /\ entry = "particles"
    /\ NoGeometry
    /\ pin \in [points : PointSets, velocity : Velocities,
                mass : {s.mass : s \in Scalars}, density : {s.density : s \in Scalars},
                h : {s.h : s \in Scalars}, distention : {s.distention : s \in Scalars}]
    /\ \E s \in Scalars :
         /\ pin.mass = s.mass /\ pin.density = s.density
         /\ pin.h = s.h /\ pin.distention = s.distention

NoScript == script = [name |-> "", count |-> 0]

InitWrite ==
    /\ entry = "write"
    /\ NoGeometry
    /\ NoParticleInput
    /\ script \in [name : ScriptNames, count : 1..MaxRows]

NoCube == cin = [n |-> 0, size |-> 0, omega |-> 0]

InitCube ==
    /\ entry = "cube"
    /\ NoGeometry
    /\ NoParticleInput
    /\ NoScript
    /\ cin \in CubeInputs

Init ==
    /\ \/ (InitBall \/ InitSphere \/ InitCdf) /\ NoParticleInput /\ NoScript /\ NoCube
       \/ InitParticles /\ NoScript /\ NoCube
       \/ InitWrite /\ NoCube
       \/ InitCube
    /\ particles = [outcome |-> "none"]
    /\ data = [outcome |-> "none"]
    /\ file = <<>>
    /\ fib = NoResult
    /\ cubic = NoResult
    /\ hcp = NoResult
    /\ sphere = NoResult
    /\ sample = [outcome |-> "none"]

Next ==
    \/ CallSphere
    \/ CallFib
    \/ CallCubic
    \/ CallHcp
    \/ CallRandomFromCdf
    \/ CallPointsToParticles
    \/ WriteGenerateParticles
    \/ WriteSchaefer
    \/ WriteMakeCube
    \/ WriteMakeBalls
    \/ CallCreateCube

Spec == Init /\ [][Next]_vars

(***************************************************************************)
(* Properties                                                              *)
(***************************************************************************)
ValidInput == entry = "ball" /\ radius > 0 /\ delta_r > 0

\* |p|^2 of a sphere-surface point, y^2 + r^2, as a fraction in lowest terms
SphereNorm2(pt) ==
    LET n == pt.yn * pt.yn + pt.rn
        d == pt.yd * pt.yd
        g == GCD(n, d)
    IN  [n |-> n \div g, d |-> d \div g]

\* |shell * pt| <= rad, resp. = rad, for a point with defined coordinates
FibWithin(p, rad) ==
    p.shell * p.shell * SphereNorm2(p.pt).n <= rad * rad * SphereNorm2(p.pt).d
FibOnBoundary(p, rad) ==
    p.shell * p.shell * SphereNorm2(p.pt).n = rad * rad * SphereNorm2(p.pt).d

HcpWithin(p, rad, dr) == dr * dr * HcpNorm2(p) <= 12 * p.den * p.den * rad * rad
HcpOnBoundary(p, rad, dr) == dr * dr * HcpNorm2(p) = 12 * p.den * p.den * rad * rad

Defined(res) == { p \in res.points : ~p.pt.nan }

\* C1: for radius > 0 and delta_r > 0 every point (with defined coordinates)
\* returned by make_ball, make_ball_cubic and make_ball_hcp has norm <= radius,
\* and every shell radius of make_ball is at most radius.
C1_PointsWithinBall ==
    ValidInput =>
        /\ fib.outcome = "ok" =>
             \A p \in Defined(fib) : p.shell <= radius /\ FibWithin(p, radius)
        /\ cubic.outcome = "ok" =>
             \A p \in cubic.points : Norm2(p) <= radius * radius
        /\ hcp.outcome = "ok" =>
             \A p \in hcp.points : HcpWithin(p, radius, delta_r)

\* a filler returned a point at norm exactly radius
KeepsBoundary ==
    \/ fib.outcome = "ok" /\ \E p \in Defined(fib) : FibOnBoundary(p, radius)
    \/ cubic.outcome = "ok" /\ \E p \in cubic.points : Norm2(p) = radius * radius
    \/ hcp.outcome = "ok" /\ \E p \in hcp.points : HcpOnBoundary(p, radius, delta_r)

\* a filler dropped a candidate point at norm exactly radius
CullsBoundary ==
    \/ cubic.outcome = "ok" /\
         \E p \in MGrid(radius, delta_r) :
             Norm2(p) = radius * radius /\ p \notin cubic.points
    \/ hcp.outcome = "ok" /\
         \E p \in HcpGrid(N_1d(radius, delta_r), Centroid(N_1d(radius, delta_r))) :
             HcpOnBoundary(p, radius, delta_r) /\ p \notin hcp.points

\* C2: the ball fillers apply one boundary convention: a candidate point at
\* norm exactly radius is never kept by one filler and dropped by another.
C2_OneBoundaryConvention == ValidInput => ~(KeepsBoundary /\ CullsBoundary)

\* C3: for N >= 2, points_on_sphere_surface(N) returns exactly N points, point i
\* at height y_i = 1 - 2i/(N-1) within [-1,1], with x_i^2 + z_i^2 = 1 - y_i^2
\* (norm 1), the first at y = 1 and the last at y = -1.
C3_SpherePoints ==
    (entry = "sphere" /\ sphere.outcome = "ok" /\ N >= 2) =>
        LET pts == sphere.points
        IN  /\ Len(pts) = N
            /\ \A m \in DOMAIN pts :
                 /\ pts[m].i = m - 1
                 /\ ~pts[m].nan
                 /\ pts[m].yn * (N - 1) = pts[m].yd * (N - 1 - 2 * (m - 1))
                 /\ -pts[m].yd <= pts[m].yn /\ pts[m].yn <= pts[m].yd
                 /\ pts[m].rn >= 0
                 /\ SphereNorm2(pts[m]) = [n |-> 1, d |-> 1]
            /\ pts[1].yn = pts[1].yd
            /\ pts[N].yn = -pts[N].yd

C3_Witness ==
    /\ entry = "sphere" /\ sphere.outcome = "ok" /\ N >= 3
    /\ Len(sphere.points) = N
    /\ sphere.points[2].yn # sphere.points[2].yd

\* C4: a count N <= 1 reaching points_on_sphere_surface, directly or as a shell
\* allocation of make_ball, never yields a point with an undefined (NaN)
\* coordinate.
C4_NoUndefinedPoint ==
    /\ (entry = "sphere" /\ sphere.outcome = "ok") =>
         \A m \in DOMAIN sphere.points : ~sphere.points[m].nan
    /\ (ValidInput /\ fib.outcome = "ok") => \A p \in fib.points : ~p.pt.nan

\* C5: a ball filler called with a non-positive radius or delta_r ends in an
\* error; it never returns a point set.
C5_InvalidParametersFail ==
    (entry = "ball" /\ (radius <= 0 \/ delta_r <= 0)) =>
        /\ fib.outcome # "ok"
        /\ cubic.outcome # "ok"
        /\ hcp.outcome # "ok"

\* the point count of the ball make_ball returned
FibCount == Cardinality(fib.points)

\* C6 as stated: the point count of make_ball is within one point of
\* N_total = round(4/3*pi*radius^3*delta_r^-3); for radius = 4*delta_r
\* (0.10 and 0.025) there are 4 shells weighted 1:4:9:16 and 268 points.
C6_CountWithinOneOfTotal ==
    (ValidInput /\ fib.outcome = "ok") =>
        /\ Abs(FibCount - total_points_in_ball(radius, delta_r)) <= 1
        /\ (radius = 4 /\ delta_r = 1) =>
             /\ NumShells(radius, delta_r) = 4
             /\ \A k \in 1..4 :
                  ShellAllocation(k, radius, delta_r).n * 30 =
                      k * k * 268 * ShellAllocation(k, radius, delta_r).d
             /\ FibCount = 268

\* C6 as amended: every shell's allocation is rounded up to a whole count, so
\* the point count is at least N_total and exceeds it by at most the number of
\* shells; for radius = 4*delta_r there are 4 shells weighted 1:4:9:16 (of
\* N_total = 268) and 9 + 36 + 81 + 143 = 269 points.
C6_CountWithinShellsOfTotal ==
    (ValidInput /\ fib.outcome = "ok") =>
        /\ FibCount >= total_points_in_ball(radius, delta_r)
        /\ FibCount <= total_points_in_ball(radius, delta_r) + NumShells(radius, delta_r)
        /\ \A k \in 1..NumShells(radius, delta_r) :
             Cardinality({ p \in fib.points : p.shell = Shell(k, delta_r) }) =
                 CeilDiv(ShellAllocation(k, radius, delta_r).n,
                         ShellAllocation(k, radius, delta_r).d)
        /\ (radius = 4 /\ delta_r = 1) =>
             /\ NumShells(radius, delta_r) = 4
             /\ total_points_in_ball(radius, delta_r) = 268
             /\ \A k \in 1..4 :
                  ShellAllocation(k, radius, delta_r).n * 30 =
                      k * k * 268 * ShellAllocation(k, radius, delta_r).d
             /\ FibCount = 269

C6_Witness ==
    /\ ValidInput /\ fib.outcome = "ok"
    /\ radius = 4 /\ delta_r = 1
    /\ FibCount = 269

\* lattice sites are looked for up to HcpMargin indices beyond the index grid
HcpMargin == 1

\* C7: make_ball_hcp fills the ball: every site of the centroid-centred HCP
\* lattice with norm < radius, also one whose index lies outside the grid of
\* ceil(2*radius/delta_r) sites per axis, is in the returned point set.
C7_HcpFillsBall ==
    (ValidInput /\ hcp.outcome = "ok") =>
        LET n == N_1d(radius, delta_r)
            c == Centroid(n)
            I == (-HcpMargin)..(n - 1 + HcpMargin)
        IN  \A i \in I, j \in I, k \in I :
              InsideHcp(HcpSite(i, j, k, c), radius, delta_r) =>
                  HcpSite(i, j, k, c) \in hcp.points

\* squared distance of two HCP points, in units of r^2 / (3 den^2)
HcpDist2(p, q) ==
    3 * (p.cx - q.cx) * (p.cx - q.cx) + (p.cy - q.cy) * (p.cy - q.cy)
        + 8 * (p.cz - q.cz) * (p.cz - q.cz)

\* the 26 lattice sites around p
HcpNeighbours(p, c) ==
    { HcpSite(p.i + d[1], p.j + d[2], p.k + d[3], c) :
        d \in { t \in {-1, 0, 1} \X {-1, 0, 1} \X {-1, 0, 1} : t # <<0, 0, 0>> } }

\* C8: no two distinct points returned by make_ball_hcp are closer than delta_r
\* (squared distance 3dx^2 + dy^2 + 8dz^2 >= 12 in lattice units), and the
\* nearest lattice neighbour of every returned point is at exactly delta_r.
C8_HcpSpacing ==
    (ValidInput /\ hcp.outcome = "ok") =>
        LET c == Centroid(N_1d(radius, delta_r))
        IN  /\ \A p, q \in hcp.points :
                 p # q => HcpDist2(p, q) >= 12 * p.den * p.den
            /\ \A p \in hcp.points :
                 /\ \A q \in HcpNeighbours(p, c) : HcpDist2(p, q) >= 12 * p.den * p.den
                 /\ \E q \in HcpNeighbours(p, c) : HcpDist2(p, q) = 12 * p.den * p.den

C8_Witness ==
    /\ ValidInput /\ hcp.outcome = "ok"
    /\ \E p, q \in hcp.points :
         /\ p.k # q.k
         /\ HcpDist2(p, q) = 12 * p.den * p.den
    /\ \E p, q \in hcp.points :
         /\ p.k = q.k /\ p.j # q.j
         /\ HcpDist2(p, q) = 12 * p.den * p.den

\* C9: for every monotonic CDF with domain [a,b] = [x[0], x[-1]] and every u in
\* [0,1] the value random_from_cdf computes lies in [a,b]; u = 0 gives a and
\* u = 1 gives b.
C9_SampleInDomain ==
    (entry = "cdf" /\ sample.outcome = "ok") =>
        LET v == sample.value
            a == cdf.x[1]
            b == cdf.x[Len(cdf.x)]
        IN  /\ ~v.divzero /\ ~v.nan
            /\ a * v.d <= v.n /\ v.n <= b * v.d
            /\ u = 0 => v.n = a * v.d
            /\ u = CdfScale => v.n = b * v.d

\* C10: random_from_cdf never divides by zero: the bracketing samples it picks
\* satisfy y[i1] # y[i0].
C10_NoDivisionByZero ==
    (entry = "cdf" /\ sample.outcome = "ok") =>
        /\ cdf.y[sample.i1 + 1] # cdf.y[sample.i0 + 1]
        /\ ~sample.value.divzero

\* the fields points_to_particles sets: position, velocity, mass, density,
\* smoothing length, distention
AssignedFields == {0, 1, 2, 3, 4, 5, 6, 7, 9, 22}

ParticleRecordsRight ==
    (entry = "particles" /\ particles.outcome = "ok") =>
        LET f == particles.fields
            n == Len(pin.points)
        IN  /\ DOMAIN f = 0..23
            /\ \A k \in 0..23 : DOMAIN f[k] = 1..n
            /\ \A c \in 1..n :
                 /\ <<f[0][c], f[1][c], f[2][c]>> = pin.points[c]
                 /\ <<f[3][c], f[4][c], f[5][c]>> = pin.velocity
                 /\ f[6][c] = pin.mass
                 /\ f[7][c] = pin.density
                 /\ f[9][c] = pin.h
                 /\ f[22][c] = pin.distention
                 /\ \A k \in (0..23) \ AssignedFields : f[k][c] = 0

\* C11: for N points, points_to_particles returns N records of 24 fields:
\* record n holds point n in fields 0-2, the velocity in 3-5, mass in 6,
\* density in 7, smoothing length in 9, distention in 22 and zero in every
\* other field; the input point array is not modified.
C11_ParticleRecords == []ParticleRecordsRight /\ [][pin' = pin]_vars

C11_Witness ==
    /\ entry = "particles" /\ particles.outcome = "ok"
    /\ Len(pin.points) = 2
    /\ pin.points[1] # pin.points[2]
    /\ pin.velocity = <<1, 2, 3>>
    /\ pin.mass = 4
    /\ particles.fields[4][2] = 2

\* the columns the solver reads first, in its order
SolverColumns ==
    <<"x", "y", "z", "vx", "vy", "vz", "mass", "density", "energy",
      "smoothing_length", "material_type">> \o StressColumns

\* a column holds the quantity the schema names; a field left at zero is a
\* zero energy, material type 0 or a zero stress component
ColumnMatches(written, wanted) ==
    \/ written = wanted
    \/ /\ written = "zero"
       /\ wanted \in {"energy", "material_type"} \cup { StressColumns[m] : m \in 1..9 }

\* C12: every generating script writes one row per particle whose leading
\* columns are position x3, velocity x3, mass, density, energy, smoothing
\* length, material type, stress x9, in this order, none left out.
C12_SolverColumnOrder ==
    (entry = "write" /\ file # <<>>) =>
        /\ Len(file) = script.count
        /\ \A r \in DOMAIN file :
             /\ Len(file[r]) >= Len(SolverColumns)
             /\ \A c \in DOMAIN SolverColumns :
                  c <= Len(file[r]) => ColumnMatches(file[r][c], SolverColumns[c])

\* the sum over all particles of velocity component m
CubeVelocitySum(m) ==
    SumFn([i \in 0..(cin.n - 1) |->
             SumFn([j \in 0..(cin.n - 1) |->
                      SumFn([k \in 0..(cin.n - 1) |->
                               data.particles[<<i, j, k>>].vel[m]], cin.n)], cin.n)],
          cin.n)

\* C13: the velocities create_cube_distribution assigns are a rigid rotation
\* about the cube centre (size/2, size/2): vx = -omega*dy, vy = omega*dx,
\* vz = 0; all n^3 particles have the same mass and the velocities sum to zero
\* in every component (zero net momentum).
C13_ZeroNetMomentum ==
    (entry = "cube" /\ data.outcome = "ok") =>
        /\ Cardinality(DOMAIN data.particles) = cin.n * cin.n * cin.n
        /\ \A t \in DOMAIN data.particles :
             LET q == data.particles[t]
             IN  /\ 2 * q.vel[1] = -cin.omega * (2 * q.pos[2] - cin.size * q.den)
                 /\ 2 * q.vel[2] = cin.omega * (2 * q.pos[1] - cin.size * q.den)
                 /\ q.vel[3] = 0
                 /\ \A t2 \in DOMAIN data.particles : data.particles[t2].mass = q.mass
        /\ \A m \in 1..3 : CubeVelocitySum(m) = 0

C13_Witness ==
    /\ entry = "cube" /\ data.outcome = "ok"
    /\ cin.n = 2 /\ cin.omega = 2
    /\ \E t \in DOMAIN data.particles :
         data.particles[t].vel[1] > 0 /\ data.particles[t].vel[2] < 0

====
